---------------------------- MODULE Spec2Model ----------------------------
(***************************************************************************)
(* berlin-rs: a geographic-location search engine.                         *)
(*                                                                         *)
(* The module models the query pipeline (SearchTerm::from_raw_query,       *)
(* SearchableStringSet::add / match_str / build_search,                    *)
(* LocationsDb::mk_fst / search, ResultsGraph::from_results) and the       *)
(* build-time loader (parse_data_block with its parallel workers, and      *)
(* parse_data_list over the rows of the CSV).                              *)
(*                                                                         *)
(* Strings are sequences of characters; a character is a TLA+ string       *)
(* naming it, whose Unicode code point is given by CodePoint, so that      *)
(* byte length (str::len), character count (chars().count()) and byte      *)
(* order (str::cmp) are distinct, computed notions.                        *)
(***************************************************************************)
EXTENDS Integers, Sequences, FiniteSets, TLC

VARIABLES
    (* LocationsDb *)
    all,            \* LocationsDb.all: key -> Location
    indices,        \* LocationsDb.indices: key -> node of the arena
    arena,          \* LocationsDb.arena: sequence of nodes [data, parent]
    state_by_code,  \* LocationsDb.state_by_code: alpha-2 code -> key
    subdiv_by_code, \* LocationsDb.subdiv_by_code: subdivision id -> key
    interned,       \* the process-wide Ustr interner: the set of interned strings
    by_word_map,    \* LocationsDb.by_word_map: token -> set of keys
    by_word_vec,    \* LocationsDb.by_word_vec: sequence of <<token, set of keys>>
    fst,            \* LocationsDb.fst: token -> 0-based ordinal into by_word_vec
    built,          \* TRUE once mk_fst has run
    (* one query *)
    q_filter,       \* the state_filter the caller gave to from_raw_query
    st,             \* the SearchTerm, or NoTerm before from_raw_query
    pre_filtered,   \* the candidate set gathered by search
    scored,         \* the score map handed to ResultsGraph::from_results
    res,            \* the list search returned, or NoResult
    (* ResultsGraph::from_results applied on its own *)
    g_in,           \* the score map given to from_results
    g_out,          \* the score map from_results returned
    g_out2,         \* from_results applied to g_out
    g_pc,           \* "input" | "once" | "twice"
    (* a SearchableStringSet built by add() calls *)
    m_subject,      \* the subject word handed to match_str
    m_before,       \* match_str(subject) before the last add
    m_last,         \* what the last add did
    checks,         \* TRUE: integer overflow panics (debug build), FALSE: wraps
    (* parse_data_block *)
    block,          \* the JSON object: its records
    todo,           \* the records no worker has taken yet
    w_pc,           \* worker -> its position
    w_rec,          \* worker -> the record it holds
    w_errs,         \* worker -> the errors it has produced
    lock,           \* the RwLock's writer, or NoWorker
    errors,         \* the collected Vec<String>, once collected
    ret,            \* what parse_data_block returned
    (* parse_data_list *)
    csv,            \* the CSV rows the iterator yields
    l_next,         \* the index in csv of the row the iterator yields next
    nerrs,          \* the counter of rows whose key is not in the store
    l_ret           \* what parse_data_list returned

vars == <<all, indices, arena, state_by_code, subdiv_by_code, interned,
          by_word_map, by_word_vec, fst, built, q_filter, st, pre_filtered,
          scored, res, g_in, g_out, g_out2, g_pc, m_subject, m_before, m_last,
          checks, block, todo, w_pc, w_rec, w_errs, lock, errors, ret,
          csv, l_next, nerrs, l_ret>>

storeVars == <<all, indices, arena, state_by_code, subdiv_by_code>>
dbVars    == <<storeVars, interned, by_word_map, by_word_vec, fst, built>>
queryVars == <<st, pre_filtered, scored, res>>
graphVars == <<g_in, g_out, g_out2, g_pc>>
matchVars == <<m_subject, m_before, m_last, checks>>
parseVars == <<block, todo, w_pc, w_rec, w_errs, lock, errors, ret>>
listVars  == <<csv, l_next, nerrs, l_ret>>

-----------------------------------------------------------------------------
(* Characters and strings                                                  *)

LowerCase == <<"a", "b", "c", "d", "e", "f", "g", "h", "i", "j", "k", "l", "m",
               "n", "o", "p", "q", "r", "s", "t", "u", "v", "w", "x", "y", "z">>

Range(f) == {f[i] : i \in DOMAIN f}

\* A map with every entry computed once, when the map is made.
Eager(f) == f @@ <<>>

\* The characters the model uses: space, three punctuation marks, two digits,
\* two capitals, a-z, U+00E9 (e with acute) and U+0436 (Cyrillic zhe).
Chars == Range(LowerCase) \cup {" ", ",", "-", ":", "1", "2", "B", "W", "e_acute", "zhe"}

\* The Unicode code point of each character.
CodePoints ==
    Eager([c \in Chars |->
        CASE c = " " -> 32  [] c = "," -> 44  [] c = "-" -> 45  [] c = ":" -> 58
          [] c = "1" -> 49  [] c = "2" -> 50
          [] c = "B" -> 66  [] c = "W" -> 87
          [] c = "e_acute" -> 233
          [] c = "zhe" -> 1078
          [] OTHER -> 96 + (CHOOSE i \in 1..26 : LowerCase[i] = c)])

CodePoint(c) == CodePoints[c]

\* The number of bytes of each character in UTF-8.
Utf8Lens ==
    Eager([c \in Chars |->
        IF CodePoint(c) < 128 THEN 1
        ELSE IF CodePoint(c) < 2048 THEN 2
        ELSE IF CodePoint(c) < 65536 THEN 3 ELSE 4])

Utf8Len(c) == Utf8Lens[c]

Max(a, b) == IF a >= b THEN a ELSE b
Min(a, b) == IF a <= b THEN a ELSE b

\* str::len: the length in bytes.
RECURSIVE ByteLen(_)
ByteLen(s) == IF s = <<>> THEN 0 ELSE Utf8Len(Head(s)) + ByteLen(Tail(s))

\* str::chars().count(): the length in characters.
CharCount(s) == Len(s)

\* str::starts_with.
StartsWith(s, p) == Len(p) <= Len(s) /\ SubSeq(s, 1, Len(p)) = p

\* str::cmp: lexicographic on bytes, which for UTF-8 is lexicographic on code
\* points. -1, 0 or 1.
RECURSIVE StrCmp(_, _)
StrCmp(a, b) ==
    IF a = <<>> THEN (IF b = <<>> THEN 0 ELSE -1)
    ELSE IF b = <<>> THEN 1
    ELSE IF CodePoint(Head(a)) < CodePoint(Head(b)) THEN -1
    ELSE IF CodePoint(Head(a)) > CodePoint(Head(b)) THEN 1
    ELSE StrCmp(Tail(a), Tail(b))

\* A set of strings as the sequence sort_unstable_by(str::cmp) leaves it.
RECURSIVE SortWords(_)
SortWords(S) ==
    IF S = {} THEN <<>>
    ELSE LET m == CHOOSE x \in S : \A y \in S : StrCmp(x, y) <= 0
         IN  <<m>> \o SortWords(S \ {m})

\* str::find: the byte offset of the first occurrence of p in s, or -1 (None).
RECURSIVE FindFrom(_, _, _)
FindFrom(s, p, i) ==
    IF i + Len(p) - 1 > Len(s) THEN -1
    ELSE IF SubSeq(s, i, i + Len(p) - 1) = p THEN ByteLen(SubSeq(s, 1, i - 1))
    ELSE FindFrom(s, p, i + 1)

Find(s, p) == FindFrom(s, p, 1)

\* [a, b].join(" ")
JoinSp(a, b) == a \o <<" ">> \o b

\* Every sequence over the set S, each element used once.
RECURSIVE SeqsOf(_)
SeqsOf(S) ==
    IF S = {} THEN {<<>>}
    ELSE UNION {{<<e>> \o s : s \in SeqsOf(S \ {e})} : e \in S}

-----------------------------------------------------------------------------
(* Edit distance and similarity (strsim)                                   *)

\* The least element of a non-empty set of integers.
\* The row of the Levenshtein table for the character ch of a, from the row
\* above, filled from column j on; column j is held at index j + 1. A cell is
\* the least of deletion, insertion and substitution. (Len(next) > 0 holds
\* always; asking it computes the cell before the next one is started.)
RECURSIVE LevRowFrom(_, _, _, _, _)
LevRowFrom(ch, b, prev, cur, j) ==
    IF j > Len(b) THEN cur
    ELSE LET next == Append(cur, Min(Min(prev[j + 1] + 1, cur[j] + 1),
                                     prev[j] + (IF b[j] = ch THEN 0 ELSE 1)))
         IN  IF Len(next) > 0 THEN LevRowFrom(ch, b, prev, next, j + 1) ELSE next

LevRow(ch, b, prev, i) == LevRowFrom(ch, b, prev, <<i>>, 1)

RECURSIVE LevRows(_, _, _, _)
LevRows(a, b, prev, i) ==
    IF i > Len(a) THEN prev[Len(b) + 1]
    ELSE LET row == LevRow(a[i], b, prev, i)
         IN  IF Len(row) > 0 THEN LevRows(a, b, row, i + 1) ELSE 0

\* strsim::levenshtein, on characters.
Levenshtein(a, b) == LevRows(a, b, <<>> \o [j \in 1..(Len(b) + 1) |-> j - 1], 1)

\* The (length, distance) pairs, for lengths up to 40, at which the f64
\* product (1.0 - d / m) * 1000.0 falls just below the integer the exact
\* quotient gives, so that the cast to i64 yields one less.
F64RoundsDown ==
    { <<5, 4>>, <<10, 8>>, <<10, 9>>, <<15, 12>>, <<20, 11>>, <<20, 16>>,
      <<20, 18>>, <<25, 8>>, <<25, 14>>, <<25, 17>>, <<25, 20>>, <<25, 23>>,
      <<30, 24>>, <<30, 27>>, <<35, 28>>, <<40, 22>>, <<40, 27>>, <<40, 31>>,
      <<40, 32>>, <<40, 36>>, <<40, 37>> }

\* (normalized_levenshtein(a, b) * scale as f64) as i64, for scale = 1000
SimilarityScore(a, b, scale) ==
    LET m == Max(CharCount(a), CharCount(b))
        d == Levenshtein(a, b)
    IN  IF m = 0 THEN scale
        ELSE ((m - d) * scale) \div m
               - (IF <<m, d>> \in F64RoundsDown THEN 1 ELSE 0)

-----------------------------------------------------------------------------
(* Tuning constants of the crate root                                      *)

SCORE_SOFT_MAX == 1000
SEARCH_INCLUSION_THRESHOLD == 400
GRAPH_EDGE_THRESHOLD == 600
STOP_WORDS_PENALTY == 100
LEV_LENGTH_MAX == 16
LEV_3_LENGTH_MAX == 8
LEV_2_LENGTH_MAX == 12

-----------------------------------------------------------------------------
(* Locations                                                               *)

NoKey == <<>>           \* Option::None for a key, a code or a filter

\* The words of a string, in order: the maximal runs of characters other than
\* the space (str::split_whitespace; on a normalized string, which holds only
\* letters, digits and single spaces, also unicode_words).
RECURSIVE WordsFrom(_, _)
WordsFrom(s, cur) ==
    IF s = <<>> THEN (IF cur = <<>> THEN <<>> ELSE <<cur>>)
    ELSE IF Head(s) = " "
         THEN (IF cur = <<>> THEN <<>> ELSE <<cur>>) \o WordsFrom(Tail(s), <<>>)
         ELSE WordsFrom(Tail(s), Append(cur, Head(s)))

\* A faulty split: the empty string has one, empty, word (str::split(' ')).
WordsSplit(s) == IF s = <<>> THEN << <<>> >> ELSE WordsFrom(s, <<>>)

Words(s) == WordsFrom(s, <<>>)


\* Option::None of the coordinates of a location.
NoCoordinates == [none |-> TRUE]

\* A Location: key, id, kind, the alpha-2 code of its state, codes, names,
\* the words of its names, the keys of its parents, and its coordinates
\* (absent until the CSV supplies them).
Location(key, id, kind, state, codes, names, pstate, psubdiv) ==
    [key |-> key, id |-> id, kind |-> kind, state |-> state, codes |-> codes,
     names |-> names, words |-> UNION {Range(Words(n)) : n \in names},
     parent_state |-> pstate, parent_subdiv |-> psubdiv,
     coordinates |-> NoCoordinates]

K_gb    == <<"s", "t", "-", "g", "b">>
K_fr    == <<"s", "t", "-", "f", "r">>
K_sub   == <<"s", "d", "-", "g", "b", ":", "b", "a", "n">>
K_bth   == <<"l", "c", "-", "g", "b", ":", "b", "t", "h">>
K_frb   == <<"l", "c", "-", "f", "r", ":", "b", "t", "h">>

S_gb    == <<"g", "b">>
S_fr    == <<"f", "r">>
S_zz    == <<"z", "z">>
S_ban   == <<"b", "a", "n">>
S_bth   == <<"b", "t", "h">>
S_bath  == <<"b", "a", "t", "h">>
S_bathe == <<"b", "a", "t", "h", "e">>
S_wales == <<"w", "a", "l", "e", "s">>
S_bales == <<"b", "a", "l", "e", "s">>
S_the   == <<"t", "h", "e">>
S_the_bath == <<"t", "h", "e", " ", "b", "a", "t", "h">>

\* The locations a store is drawn from: two states, a subdivision of the
\* first, a locode in that subdivision and a locode of the second state.
Universe ==
    { Location(K_gb, S_gb, "State", S_gb, {S_gb}, {S_wales}, NoKey, NoKey),
      Location(K_fr, S_fr, "State", S_fr, {S_fr}, {S_bales}, NoKey, NoKey),
      Location(K_sub, <<"g", "b", ":", "b", "a", "n">>, "Subdivision", S_gb,
               {S_ban}, {S_bath}, K_gb, NoKey),
      Location(K_bth, <<"g", "b", ":", "b", "t", "h">>, "Locode", S_gb,
               {S_bth}, {S_bath, S_the_bath}, K_gb, K_sub),
      Location(K_frb, <<"f", "r", ":", "b", "t", "h">>, "Locode", S_fr,
               {S_bth}, {S_bath}, K_fr, NoKey) }

\* A store: the map from key to location, over a set of locations.
StoreOf(locs) == Eager([k \in {l.key : l \in locs} |-> CHOOSE l \in locs : l.key = k])

\* Location::get_parents: (state key, subdivision key).
get_parents(loc) == <<loc.parent_state, loc.parent_subdiv>>

\* i64 division by two, truncating toward zero.
Half(s) == IF s >= 0 THEN s \div 2 ELSE -((-s) \div 2)

\* Location::parent_boost.
parent_boost(parent, score) == Half(score)

-----------------------------------------------------------------------------
(* The interner and the normalizer                                         *)

\* The tokens of a store's word index: words, codes and names.
Vocabulary(db) ==
    UNION {db[k].words \cup db[k].codes \cup db[k].names : k \in DOMAIN db}

\* The strings interned while a store was loaded: keys, ids, state codes and
\* the vocabulary.
InternedBy(db) ==
    Vocabulary(db) \cup (DOMAIN db) \cup {db[k].id : k \in DOMAIN db}
                   \cup {db[k].state : k \in DOMAIN db}

\* Ustr::from_existing(s).is_some()
from_existing(s, intern) == s \in intern

\* Lowercase and diacritic fold of one character; a character that is neither
\* a letter nor a digit becomes a space.
NormChar(c) ==
    CASE c = "B" -> "b" [] c = "W" -> "w" [] c = "e_acute" -> "e"
      [] c \in {",", "-", ":"} -> " "
      [] OTHER -> c

\* Runs of spaces collapsed to one, leading and trailing spaces removed.
RECURSIVE Collapse(_, _)
Collapse(s, out) ==
    IF s = <<>>
    THEN (IF out # <<>> /\ out[Len(out)] = " " THEN SubSeq(out, 1, Len(out) - 1)
          ELSE out)
    ELSE IF Head(s) = " " /\ (out = <<>> \/ out[Len(out)] = " ")
         THEN Collapse(Tail(s), out)
         ELSE Collapse(Tail(s), Append(out, Head(s)))

\* crate::normalize
normalize(raw) == Collapse([i \in 1..Len(raw) |-> NormChar(raw[i])], <<>>)

-----------------------------------------------------------------------------
(* SearchableStringSet and SearchTerm                                      *)

STOP_WORDS ==
    { <<"a", "n", "y">>, <<"a", "l", "l">>, <<"a", "r", "e">>, <<"i", "s">>,
      <<"a", "t">>, <<"t", "o">>, <<"i", "n">>, <<"o", "n">>, <<"o", "f">>,
      <<"f", "o", "r">>, <<"b", "y">>, <<"a", "n", "d">>, <<"w", "a", "s">>,
      <<"d", "i", "d">>, <<"t", "h", "e">> }

\* The model's stand-in for 2^64, the modulus of usize: like 2^64 it exceeds
\* every string length by more than two, which is all a comparison of a
\* length with a wrapped difference depends on.
UsizeModulus == 1073741824

Offset(start, end) == [start |-> start, end |-> end]
Score(score, offset) == [kind |-> "Some", score |-> score, offset |-> offset]
None == [kind |-> "None"]
Panic == [kind |-> "Panic"]

\* Offset::cmp >= Equal
OffsetGE(a, b) == a.start > b.start \/ (a.start = b.start /\ a.end >= b.end)

\* Score::cmp(a, b) >= Equal: by score, then by offset.
ScoreGE(a, b) == a.score > b.score \/ (a.score = b.score /\ OffsetGE(a.offset, b.offset))

\* Iterator::max over a set of scores: None when it is empty.
MaxScore(S) == IF S = {} THEN None ELSE CHOOSE x \in S : \A y \in S : ScoreGE(x, y)

\* A faulty reduction: the least score instead of the greatest.
MinScore(S) == IF S = {} THEN None ELSE CHOOSE x \in S : \A y \in S : ScoreGE(y, x)

\* SearchableStringSet::new(stop_words)
NewSet(stop_words) == [stop_words |-> stop_words, exact |-> <<>>, not_exact |-> <<>>]

\* MatchDef { term, offset } with the offset of the term's first occurrence in
\* the normalized query (add_exact, add_not_exact, add_code).
MatchDef(term, normalized) ==
    [term |-> term,
     offset |-> Offset(Find(normalized, term), Find(normalized, term) + ByteLen(term))]

\* A faulty add: the length test admits a term of LEV_LENGTH_MAX characters
\* and the triplet's allow_inexact = false is not honoured.
addLax(set, matchable, normalized, allow_inexact, intern) ==
    IF from_existing(matchable, intern)
    THEN IF ByteLen(matchable) \in {0, 1} THEN set
         ELSE IF matchable \in Range(set.stop_words) THEN set
         ELSE [set EXCEPT !.exact = Append(@, MatchDef(matchable, normalized))]
    ELSE IF CharCount(matchable) <= LEV_LENGTH_MAX
         THEN [set EXCEPT !.not_exact = Append(@, MatchDef(matchable, normalized))]
         ELSE set

\* SearchableStringSet::add
add(set, matchable, normalized, allow_inexact, intern) ==
    IF from_existing(matchable, intern)
    THEN IF ByteLen(matchable) \in {0, 1} THEN set
         ELSE IF matchable \in Range(set.stop_words) THEN set
         ELSE [set EXCEPT !.exact = Append(@, MatchDef(matchable, normalized))]
    ELSE IF allow_inexact /\ CharCount(matchable) < LEV_LENGTH_MAX
         THEN [set EXCEPT !.not_exact = Append(@, MatchDef(matchable, normalized))]
         ELSE set

\* The score of one not_exact term w against the subject: the closure of
\* match_str's map. usize subtraction overflows when the subject has fewer than
\* two bytes: a panic with overflow checks, a wrapped value without.
NotExactScore(w, subject, overflow_checks) ==
    IF ByteLen(w.term) > 3 /\ StartsWith(subject, w.term)
    THEN Score(SCORE_SOFT_MAX + 2 * ByteLen(w.term), w.offset)
    ELSE IF ByteLen(subject) < 2 /\ overflow_checks THEN Panic
    ELSE LET low == (ByteLen(subject) - 2) % UsizeModulus
         IN  IF ByteLen(w.term) > low /\ ByteLen(w.term) < ByteLen(subject) + 2
             THEN Score(SimilarityScore(subject, w.term, SCORE_SOFT_MAX), w.offset)
             ELSE Score(0, w.offset)

\* The scores of the exact terms equal to the subject.
ExactScores(set, subject) ==
    { Score(SCORE_SOFT_MAX + ByteLen(m.term), m.offset) :
        m \in {x \in Range(set.exact) : x.term = subject} }

\* A faulty match_str: the not_exact scores are reduced by min.
match_strMin(set, subject, overflow_checks) ==
    LET exact == MaxScore(ExactScores(set, subject))
        fuzzy == {NotExactScore(w, subject, overflow_checks) : w \in Range(set.not_exact)}
    IN  IF exact # None THEN exact
        ELSE IF Panic \in fuzzy THEN Panic
        ELSE MinScore(fuzzy)

\* A faulty match_str: an exact match scores SCORE_SOFT_MAX, without the
\* term's length.
match_strFlat(set, subject, overflow_checks) ==
    LET exact == MaxScore({Score(SCORE_SOFT_MAX, x.offset) : x \in ExactScores(set, subject)})
        fuzzy == {NotExactScore(w, subject, overflow_checks) : w \in Range(set.not_exact)}
    IN  IF exact # None THEN exact
        ELSE IF Panic \in fuzzy THEN Panic
        ELSE MaxScore(fuzzy)

\* SearchableStringSet::match_str: Some(score), None, or a panic.
match_str(set, subject, overflow_checks) ==
    LET exact == MaxScore(ExactScores(set, subject))
        fuzzy == {NotExactScore(w, subject, overflow_checks) : w \in Range(set.not_exact)}
    IN  IF exact # None THEN exact
        ELSE IF Panic \in fuzzy THEN Panic
        ELSE MaxScore(fuzzy)

\* SearchTerm::add_code
add_code(term, u) == [term EXCEPT !.codes = Append(@, MatchDef(u, term.normalized))]

\* SearchTerm::codes_match
codes_match(term, subject_codes, score) ==
    MaxScore({ Score(score, tc.offset) :
                 tc \in {x \in Range(term.codes) : x.term \in subject_codes} })

\* The SearchTerm from_raw_query builds before it walks the words.
NewTerm(raw, state_filter, limit, lev_dist, intern) ==
    LET normalized == normalize(raw)
        split_words == Words(normalized)
        stop_words == SelectSeq(split_words,
                        LAMBDA w : from_existing(w, intern) /\ w \in STOP_WORDS)
    IN  [raw |-> raw, normalized |-> normalized,
         state_filter |-> IF state_filter # NoKey /\ from_existing(state_filter, intern)
                          THEN state_filter ELSE NoKey,
         lev_dist |-> lev_dist, limit |-> limit, codes |-> <<>>,
         matches |-> NewSet(stop_words)]

\* One iteration of from_raw_query's loop, for the word at index i (from 1).
AddWord(set, split_words, i, normalized, intern) ==
    LET n == Len(split_words)
        w == split_words[i]
        doublet == JoinSp(w, split_words[i + 1])
        triplet == JoinSp(doublet, split_words[i + 2])
        s1 == IF n > i THEN add(set, doublet, normalized, TRUE, intern) ELSE set
        s2 == IF n > i + 1 THEN add(s1, triplet, normalized, FALSE, intern) ELSE s1
    IN  add(s2, w, normalized, TRUE, intern)

RECURSIVE AddWords(_, _, _, _, _)
AddWords(set, split_words, i, normalized, intern) ==
    IF i > Len(split_words) THEN set
    ELSE AddWords(AddWord(set, split_words, i, normalized, intern),
                  split_words, i + 1, normalized, intern)

\* SearchTerm::from_raw_query
from_raw_query(raw, state_filter, limit, lev_dist, intern) ==
    LET t == NewTerm(raw, state_filter, limit, lev_dist, intern)
    IN  [t EXCEPT !.matches =
            AddWords(@, Words(t.normalized), 1, t.normalized, intern)]

-----------------------------------------------------------------------------
(* ResultsGraph::from_results                                              *)

\* A faulty graph: an edge is added when both scores reach the threshold.
GraphEdgesInclusive(results, db) ==
    { [p |-> pk, c |-> k, w |-> <<results[pk], results[k]>>] :
        <<pk, k>> \in { e \in (DOMAIN results) \X (DOMAIN results) :
                          /\ e[1] # NoKey
                          /\ e[1] \in {get_parents(db[e[2]])[1],
                                       get_parents(db[e[2]])[2]}
                          /\ Min(results[e[1]], results[e[2]])
                                >= GRAPH_EDGE_THRESHOLD } }

\* The edges of the graph: for each scored location and each of its parents
\* that is scored too, an edge parent -> child weighted (parent score, child
\* score) when both exceed GRAPH_EDGE_THRESHOLD.
GraphEdges(results, db) ==
    { [p |-> pk, c |-> k, w |-> <<results[pk], results[k]>>] :
        <<pk, k>> \in { e \in (DOMAIN results) \X (DOMAIN results) :
                          /\ e[1] # NoKey
                          /\ e[1] \in {get_parents(db[e[2]])[1],
                                       get_parents(db[e[2]])[2]}
                          /\ Min(results[e[1]], results[e[2]])
                                > GRAPH_EDGE_THRESHOLD } }

\* (i64, i64)::cmp(a, b) >= Equal
WeightGE(a, b) == a[1] > b[1] \/ (a[1] = b[1] /\ a[2] >= b[2])

\* edges.sort_unstable_by(|a, b| b.2.cmp(a.2)): every order of the edges that
\* is descending by weight; edges of equal weight come in any order.
SortedEdges(E) ==
    { s \in SeqsOf(E) :
        \A i \in 1..Len(s) : \A j \in i..Len(s) : WeightGE(s[i].w, s[j].w) }

\* A faulty iteration: the child's score is overwritten with the boost alone.
ApplyEdgeBoostOnly(results, db, edge) ==
    [results EXCEPT ![edge.c] = parent_boost(db[edge.p], edge.w[1])]

\* A faulty iteration: the two scores of the weight are taken the wrong way
\* round and the result overwrites the child's score.
ApplyEdgeSwapped(results, db, edge) ==
    [results EXCEPT ![edge.c] = parent_boost(db[edge.p], edge.w[2]) + edge.w[1]]

\* A faulty iteration: the scores are read from the map as it stands when
\* the edge is processed, not from the weight taken when the graph was built.
ApplyEdgeLive(results, db, edge) ==
    LET total_score == parent_boost(db[edge.p], results[edge.p]) + results[edge.c]
    IN  [results EXCEPT ![edge.c] = Max(total_score, results[edge.c])]

\* One iteration of the for_each over the sorted edges.
ApplyEdge(results, db, edge) ==
    LET total_score == parent_boost(db[edge.p], edge.w[1]) + edge.w[2]
        old == results[edge.c]
    IN  [results EXCEPT ![edge.c] = Max(total_score, old)]

RECURSIVE ApplyEdges(_, _, _)
ApplyEdges(results, db, edges) ==
    IF edges = <<>> THEN results
    ELSE ApplyEdges(ApplyEdge(results, db, Head(edges)), db, Tail(edges))

\* from_results with the sorted edge order it met.
from_results(results, db, order) == ApplyEdges(results, db, order)

-----------------------------------------------------------------------------
(* Idle values: the parts of the state a specification does not use        *)

NoTerm   == [none |-> TRUE]
NoResult == [kind |-> "Idle"]
NoWorker == 0
NoMap    == <<>>

NoNode   == 0

\* LocationsDb::insert applied to a store, for a location l whose node is n:
\* the code maps, indices and all.
InsertMaps(db, l, n) ==
    [all |-> (l.key :> l) @@ db.all,
     indices |-> (l.key :> n) @@ db.indices,
     state_by_code |-> IF l.kind = "State" THEN (l.state :> l.key) @@ db.state_by_code
                       ELSE db.state_by_code,
     subdiv_by_code |-> IF l.kind = "Subdivision" THEN (l.id :> l.key) @@ db.subdiv_by_code
                        ELSE db.subdiv_by_code,
     arena |-> db.arena]

\* LocationsDb::insert
insert(db, l) ==
    [InsertMaps(db, l, Len(db.arena) + 1) EXCEPT
        !.arena = Append(db.arena, [data |-> l.key, parent |-> NoNode])]

\* LocationsDb::default
EmptyDb ==
    [all |-> NoMap, indices |-> NoMap, state_by_code |-> NoMap,
     subdiv_by_code |-> NoMap, arena |-> <<>>]

\* The store after the locations were inserted one by one, in key order.
RECURSIVE InsertAll(_, _, _)
InsertAll(db, locs, order) ==
    IF order = <<>> THEN db
    ELSE InsertAll(insert(db, CHOOSE l \in locs : l.key = Head(order)), locs, Tail(order))

LoadedStore(locs) == InsertAll(EmptyDb, locs, SortWords({l.key : l \in locs}))

\* The database after locs were loaded and before mk_fst, with the strings
\* the process-wide interner holds besides those of the store.
LoadedDb(locs, extra) ==
    /\ \E db \in {LoadedStore(locs)} :
          /\ all = db.all
          /\ indices = db.indices
          /\ arena = db.arena
          /\ state_by_code = db.state_by_code
          /\ subdiv_by_code = db.subdiv_by_code
    /\ interned = InternedBy(StoreOf(locs)) \cup extra
    /\ by_word_map = NoMap
    /\ by_word_vec = <<>>
    /\ fst = NoMap
    /\ built = FALSE

IdleDb == LoadedDb(Universe, {})

IdleQuery ==
    /\ q_filter = NoKey
    /\ st = NoTerm
    /\ pre_filtered = {}
    /\ scored = NoMap
    /\ res = NoResult

IdleGraph ==
    /\ g_in = NoMap
    /\ g_out = NoMap
    /\ g_out2 = NoMap
    /\ g_pc = "idle"

IdleMatch ==
    /\ m_subject = <<>>
    /\ m_before = NoResult
    /\ m_last = "idle"
    /\ checks = FALSE

IdleParse ==
    /\ block = {}
    /\ todo = {}
    /\ w_pc = <<>>
    /\ w_rec = <<>>
    /\ w_errs = <<>>
    /\ lock = NoWorker
    /\ errors = <<>>
    /\ ret = "idle"

IdleList ==
    /\ csv = <<>>
    /\ l_next = 1
    /\ nerrs = 1
    /\ l_ret = "idle"

-----------------------------------------------------------------------------
(* SpecGraph: ResultsGraph::from_results on every bounded score map        *)

\* The scores a map given to from_results may hold: at, just above and below
\* GRAPH_EDGE_THRESHOLD, and well above it.
GraphScores == {0, GRAPH_EDGE_THRESHOLD, GRAPH_EDGE_THRESHOLD + 1, 1500}

ScoreMaps(db) == UNION { [ks -> GraphScores] : ks \in SUBSET (DOMAIN db) }

InitGraph ==
    /\ IdleDb /\ IdleQuery /\ IdleMatch /\ IdleParse /\ IdleList
    /\ g_in \in ScoreMaps(StoreOf(Universe))
    /\ g_out = NoMap
    /\ g_out2 = NoMap
    /\ g_pc = "input"

\* ResultsGraph::from_results(g_in, db)
Rerank ==
    /\ g_pc = "input"
    /\ \E order \in SortedEdges(GraphEdges(g_in, all)) :
          g_out' = from_results(g_in, all, order)
    /\ g_pc' = "once"
    /\ UNCHANGED <<listVars, q_filter, g_in, g_out2, dbVars, queryVars,
                   matchVars, parseVars>>

\* ResultsGraph::from_results(g_out, db): the re-rank of a re-ranked map
RerankAgain ==
    /\ g_pc = "once"
    /\ \E order \in SortedEdges(GraphEdges(g_out, all)) :
          g_out2' = from_results(g_out, all, order)
    /\ g_pc' = "twice"
    /\ UNCHANGED <<listVars, q_filter, g_in, g_out, dbVars, queryVars,
                   matchVars, parseVars>>

NextGraph == Rerank \/ RerankAgain

SpecGraph == InitGraph /\ [][NextGraph]_vars

\* The locations that are the child of an edge of the graph built from m.
Boosted(m, db) == {e.c : e \in GraphEdges(m, db)}

\* C5: for every location of the map given to from_results, the score in the
\* returned map is greater than or equal to the score in the input map.
C5_RerankNeverLowers ==
    /\ g_pc \in {"once", "twice"} =>
          /\ DOMAIN g_out = DOMAIN g_in
          /\ \A k \in DOMAIN g_in : g_out[k] >= g_in[k]
    /\ g_pc = "twice" =>
          /\ DOMAIN g_out2 = DOMAIN g_out
          /\ \A k \in DOMAIN g_out : g_out2[k] >= g_out[k]

\* C5 witness: a location with two scored parents was re-ranked and its score
\* rose, while its parents' scores differ.
C5_Witness ==
    /\ g_pc = "once"
    /\ {K_gb, K_sub, K_bth} \subseteq DOMAIN g_in
    /\ g_in[K_gb] > g_in[K_sub]
    /\ g_out[K_bth] > g_in[K_bth]
    /\ Cardinality({e \in GraphEdges(g_in, all) : e.c = K_bth}) = 2

\* C4 as claimed: from_results applied to its own output returns the same
\* scores as the first application.
C4_RerankIdempotent == g_pc = "twice" => g_out2 = g_out

\* C4 as amended: the second application never lowers a score, leaves
\* unchanged exactly the locations that were the child of no edge in the
\* first application, and raises every other location again.
C4_RerankTwice ==
    g_pc = "twice" =>
        \A k \in DOMAIN g_in :
            IF k \in Boosted(g_in, all)
            THEN g_out[k] > g_in[k] /\ g_out2[k] > g_out[k]
            ELSE g_out[k] = g_in[k] /\ g_out2[k] = g_out[k]

\* C4 witness: a map was re-ranked twice; one of its locations was boosted
\* both times and another was left alone both times.
C4_Witness ==
    /\ g_pc = "twice"
    /\ \E k \in DOMAIN g_in : g_out2[k] > g_out[k] /\ g_out[k] > g_in[k]
    /\ \E k \in DOMAIN g_in : g_out2[k] = g_in[k] /\ g_in[k] > GRAPH_EDGE_THRESHOLD


\* The scores an edge offers its child: the boost of the parent's input score
\* plus the child's input score, for each edge into c.
Offers(m, db, c) ==
    {parent_boost(db[e.p], m[e.p]) + m[c] : e \in {x \in GraphEdges(m, db) : x.c = c}}

\* C13: the scores from_results returns do not depend on the order in which
\* the edges are processed: under every permutation of the edge list each
\* location ends with the greatest of its input score and the scores its
\* edges offer it, which is what from_results returned.
C13_EdgeOrderIrrelevant ==
    g_pc \in {"once", "twice"} =>
        \A order \in SeqsOf(GraphEdges(g_in, all)) :
            \E out \in {ApplyEdges(g_in, all, order)} :
               /\ out = g_out
               /\ \A c \in DOMAIN g_in :
                     /\ out[c] \in {g_in[c]} \cup Offers(g_in, all, c)
                     /\ \A v \in {g_in[c]} \cup Offers(g_in, all, c) : out[c] >= v

\* C13 witness: a state, its subdivision and a locode of both were re-ranked
\* with all three edges of the chain, the two parents scoring differently,
\* and both the subdivision and the locode rose.
C13_Witness ==
    /\ g_pc = "once"
    /\ {[p |-> K_gb, c |-> K_sub], [p |-> K_gb, c |-> K_bth], [p |-> K_sub, c |-> K_bth]}
          \subseteq {[p |-> e.p, c |-> e.c] : e \in GraphEdges(g_in, all)}
    /\ g_in[K_gb] < g_in[K_sub]
    /\ g_out[K_sub] > g_in[K_sub]
    /\ g_out[K_bth] = Half(g_in[K_sub]) + g_in[K_bth]


\* The parents of c that are scored in m together with c above the threshold.
StrongParents(m, db, c) ==
    {p \in {db[c].parent_state, db[c].parent_subdiv} \ {NoKey} :
        p \in DOMAIN m /\ Min(m[p], m[c]) > GRAPH_EDGE_THRESHOLD}

\* from_results took the map before to the map after: the same keys, and the
\* same score for every location without a strong parent.
Framed(before, after, db) ==
    /\ DOMAIN after = DOMAIN before
    /\ \A c \in DOMAIN before :
          StrongParents(before, db, c) = {} => after[c] = before[c]

\* C14: from_results returns a map with exactly the keys of its input, and
\* leaves unchanged the score of every location that has no parent present in
\* the input with min(score(p), score(c)) > GRAPH_EDGE_THRESHOLD.
C14_KeysAndFrame ==
    /\ g_pc \in {"once", "twice"} => Framed(g_in, g_out, all)
    /\ g_pc = "twice" => Framed(g_out, g_out2, all)

\* C14 witness: a map was re-ranked in which one location has a scored parent
\* and the lesser of the two scores is exactly the threshold (it is left
\* alone), another location has a strong parent (it rose), and a third has
\* a parent that is not in the map.
C14_Witness ==
    /\ g_pc = "once"
    /\ \E c \in DOMAIN g_in :
          /\ \E p \in {all[c].parent_state, all[c].parent_subdiv} \ {NoKey} :
                p \in DOMAIN g_in /\ Min(g_in[p], g_in[c]) = GRAPH_EDGE_THRESHOLD
          /\ StrongParents(g_in, all, c) = {}
          /\ g_out[c] = g_in[c]
    /\ \E c \in DOMAIN g_in : StrongParents(g_in, all, c) # {} /\ g_out[c] > g_in[c]
    /\ \E c \in DOMAIN g_in :
          all[c].parent_state # NoKey /\ all[c].parent_state \notin DOMAIN g_in

-----------------------------------------------------------------------------
(* SpecMatch: a SearchTerm grown by add and add_code, scored by match_str  *)
(* and codes_match                                                         *)

MaxTerms == 3           \* terms a set holds before the model stops adding
MaxCodes == 1           \* codes a term holds before the model stops adding

\* The normalized queries the terms are taken from.
MatchQueries ==
    { <<"w", "a", "l", "e", " ", "w", "a", "l", "e", "s", " ", "g", "b">>,
      <<"b", "a", "t", "h", "e", " ", "t", "h", "e", " ", "b", "a", "t", "h">> }

\* The subjects match_str is asked about: names and ids of the store, a
\* longer name that starts with a word of a query, a one-byte word and the
\* empty string.
S_walesby == <<"w", "a", "l", "e", "s", "b", "y">>
MatchSubjects == {S_wales, S_bath, S_gb, S_the_bath, S_walesby, <<"b">>, <<>>}

\* The words, doublets and triplets of a normalized query.
Ngrams(normalized) ==
    LET w == Words(normalized)
    IN  {w[i] : i \in 1..Len(w)}
          \cup {JoinSp(w[i], w[i + 1]) : i \in 1..(Len(w) - 1)}
          \cup {JoinSp(JoinSp(w[i], w[i + 1]), w[i + 2]) : i \in 1..(Len(w) - 2)}

InitMatch ==
    /\ IdleDb /\ IdleGraph /\ IdleParse /\ IdleList
    /\ q_filter = NoKey
    /\ st \in {NewTerm(q, NoKey, 5, 3, InternedBy(StoreOf(Universe))) : q \in MatchQueries}
    /\ pre_filtered = {}
    /\ scored = NoMap
    /\ res = NoResult
    /\ m_subject \in MatchSubjects
    /\ m_before = None
    /\ m_last = "new"
    /\ checks \in BOOLEAN

\* st.matches.add(matchable, &st.normalized, allow_inexact)
Add ==
    /\ Len(st.matches.exact) + Len(st.matches.not_exact) < MaxTerms
    /\ \E matchable \in Ngrams(st.normalized), allow_inexact \in BOOLEAN :
          LET new == add(st.matches, matchable, st.normalized, allow_inexact, interned)
          IN  /\ st' = [st EXCEPT !.matches = new]
              /\ m_last' = IF Len(new.exact) > Len(st.matches.exact) THEN "exact"
                           ELSE IF Len(new.not_exact) > Len(st.matches.not_exact)
                                THEN "not_exact" ELSE "ignored"
    /\ m_before' = match_str(st.matches, m_subject, checks)
    /\ UNCHANGED <<listVars, q_filter, m_subject, checks, pre_filtered, scored,
                   res, dbVars, graphVars, parseVars>>

\* st.add_code(u), for an interned word of the query
AddCode ==
    /\ Len(st.codes) < MaxCodes
    /\ \E u \in Range(Words(st.normalized)) \cap interned :
          st' = add_code(st, u)
    /\ m_last' = "code"
    /\ m_before' = match_str(st.matches, m_subject, checks)
    /\ UNCHANGED <<listVars, q_filter, m_subject, checks, pre_filtered, scored,
                   res, dbVars, graphVars, parseVars>>

NextMatch == Add \/ AddCode

SpecMatch == InitMatch /\ [][NextMatch]_vars

\* match_str(subject) on the set as it is now.
m_now == match_str(st.matches, m_subject, checks)

Last(seq) == seq[Len(seq)]
Front(seq) == SubSeq(seq, 1, Len(seq) - 1)

\* The term the last add appended matches the subject: an exact term equal to
\* it, or a not_exact term that on its own scores above 0.
LastAddedMatches ==
    \/ m_last = "exact" /\ Last(st.matches.exact).term = m_subject
    \/ /\ m_last = "not_exact"
       /\ LET r == NotExactScore(Last(st.matches.not_exact), m_subject, checks)
          IN  r.kind = "Some" /\ r.score > 0

\* Before the last (exact) add no exact term equalled the subject, and a
\* not_exact term of more than 3 bytes is a prefix of the subject and longer
\* than half of it.
PrefixBeatsExact ==
    /\ \A x \in Range(Front(st.matches.exact)) : x.term # m_subject
    /\ \E w \in Range(st.matches.not_exact) :
          /\ ByteLen(w.term) > 3
          /\ StartsWith(m_subject, w.term)
          /\ 2 * ByteLen(w.term) > ByteLen(m_subject)

\* C6 as claimed: adding one more term that matches the subject never makes
\* match_str(subject) return a lower score than before the addition.
C6_AddNeverLowers ==
    (LastAddedMatches /\ m_before.kind = "Some")
        => (m_now.kind = "Some" /\ m_now.score >= m_before.score)

\* C6 as amended: adding a not_exact term never lowers the score match_str
\* returns; adding an exact term equal to the subject makes match_str return
\* SCORE_SOFT_MAX + len(subject), which is lower than before exactly when no
\* exact term matched before and a not_exact prefix of the subject, of more
\* than 3 bytes and longer than half the subject, was present.
C6_AddMonotoneButPrefix ==
    /\ (m_last = "not_exact" /\ m_before.kind = "Some")
          => (m_now.kind = "Some" /\ m_now.score >= m_before.score)
    /\ (m_last = "exact" /\ Last(st.matches.exact).term = m_subject)
          => /\ m_now.kind = "Some"
             /\ m_now.score = SCORE_SOFT_MAX + ByteLen(m_subject)
             /\ m_before.kind = "Some"
                   => (m_now.score < m_before.score <=> PrefixBeatsExact)

\* C6 witness: a matching not_exact term was added to a set that already
\* scored the subject, and the score rose.
C6_Witness ==
    /\ m_last = "not_exact"
    /\ LastAddedMatches
    /\ m_before.kind = "Some"
    /\ m_now.kind = "Some"
    /\ m_now.score > m_before.score

\* The subject is scored by the exact branch or by the prefix bonus.
ExactOrPrefix(s) ==
    \/ \E x \in Range(st.matches.exact) : x.term = s
    \/ \E w \in Range(st.matches.not_exact) : ByteLen(w.term) > 3 /\ StartsWith(s, w.term)

\* C7 as claimed: the score codes_match(location.codes, SCORE_SOFT_MAX) returns
\* is never lower than any score match_str gives to any subject.
C7_CodeMatchNeverLower ==
    \A k \in DOMAIN all :
        LET c == codes_match(st, all[k].codes, SCORE_SOFT_MAX)
        IN  c.kind = "Some" =>
               \A s \in MatchSubjects :
                   LET r == match_str(st.matches, s, checks)
                   IN  r.kind = "Some" => c.score >= r.score

\* C7 as amended: a code match scores exactly SCORE_SOFT_MAX, which is never
\* lower than a name score of the normalized-Levenshtein branch, and is always
\* lower than the score of an exact name match or of a prefix match.
C7_CodeMatchVersusNames ==
    \A k \in DOMAIN all :
        LET c == codes_match(st, all[k].codes, SCORE_SOFT_MAX)
        IN  c.kind = "Some" =>
               /\ c.score = SCORE_SOFT_MAX
               /\ \A s \in MatchSubjects :
                     LET r == match_str(st.matches, s, checks)
                     IN  r.kind = "Some" =>
                            IF ExactOrPrefix(s) THEN r.score > c.score
                            ELSE r.score <= c.score

\* C7 witness: a location's code matched, one subject has an exact name match
\* and another a fuzzy score between 0 and SCORE_SOFT_MAX.
C7_Witness ==
    /\ \E k \in DOMAIN all : codes_match(st, all[k].codes, SCORE_SOFT_MAX).kind = "Some"
    /\ \E s \in MatchSubjects :
          /\ \E x \in Range(st.matches.exact) : x.term = s
          /\ match_str(st.matches, s, checks).kind = "Some"
    /\ \E s \in MatchSubjects :
          LET r == match_str(st.matches, s, checks)
          IN  ~ExactOrPrefix(s) /\ r.kind = "Some" /\ r.score > 0


\* C15: when no exact term equals the subject, a not_exact term scores above
\* 0 against it only if the term's length is within one of the subject's,
\* for the prefix bonus as for the Levenshtein score and for subjects of
\* every length.
C15_NotExactWindow ==
    (\A x \in Range(st.matches.exact) : x.term # m_subject) =>
        \A w \in Range(st.matches.not_exact) :
            \E r \in {NotExactScore(w, m_subject, checks)} :
               (r # Panic /\ r.score > 0) =>
                  /\ ByteLen(w.term) >= ByteLen(m_subject) - 1
                  /\ ByteLen(w.term) <= ByteLen(m_subject) + 1

-----------------------------------------------------------------------------
(* LocationsDb::mk_fst                                                     *)

\* words_map: every token of a location's words, codes and names, mapped to
\* the keys of the locations that carry it.
WordsMap(db) ==
    Eager([w \in Vocabulary(db) |->
        {k \in DOMAIN db : w \in db[k].words \cup db[k].codes \cup db[k].names}])

\* words_vec: the entries of words_map sorted by token.
WordsVec(words_map) ==
    LET order == SortWords(DOMAIN words_map)
    IN  <<>> \o [i \in 1..Len(order) |-> <<order[i], words_map[order[i]]>>]

\* A faulty build: the ordinals count from one.
FstOneBased(words_vec) ==
    Eager([w \in {words_vec[i][1] : i \in DOMAIN words_vec} |->
        CHOOSE i \in DOMAIN words_vec : words_vec[i][1] = w])

\* fst::Map::from_iter: the token at (0-based) position i maps to i.
FstOf(words_vec) ==
    Eager([w \in {words_vec[i][1] : i \in DOMAIN words_vec} |->
        (CHOOSE i \in DOMAIN words_vec : words_vec[i][1] = w) - 1])

\* The key mk_fst appends a location under: the subdivision when there is
\* one, else the state, else none.
ParentKey(loc) ==
    LET p == get_parents(loc)
    IN  IF p[2] # NoKey THEN p[2] ELSE p[1]

\* mk_fst unwraps the arena index of every parent key.
ParentsPresent(db) ==
    \A k \in DOMAIN db : ParentKey(db[k]) # NoKey => ParentKey(db[k]) \in DOMAIN db

\* The arena after mk_fst appended every node under its parent's node.
AppendToParents(nodes, idx, db) ==
    <<>> \o [i \in DOMAIN nodes |->
        IF nodes[i].data \in DOMAIN db /\ idx[nodes[i].data] = i
           /\ ParentKey(db[nodes[i].data]) # NoKey
        THEN [nodes[i] EXCEPT !.parent = idx[ParentKey(db[nodes[i].data])]]
        ELSE nodes[i]]

-----------------------------------------------------------------------------
(* LocationsDb::search                                                     *)

\* The edit budget search_action gives a term, by its character count.
LevDistFor(term, lev_dist) ==
    IF CharCount(term) < LEV_3_LENGTH_MAX THEN lev_dist
    ELSE IF CharCount(term) < LEV_2_LENGTH_MAX THEN Min(lev_dist, 2)
    ELSE Min(lev_dist, 1)

\* search_action: the keys of the FST the term's automaton accepts, i.e. the
\* tokens within the edit budget of the term or starting with it; nothing for
\* a term of at most 3 bytes.
search_action(term, lev_dist, map) ==
    IF ByteLen(term) > 3
    THEN {w \in DOMAIN map :
            \/ StartsWith(w, term)
            \/ Levenshtein(term, w) <= LevDistFor(term, lev_dist)}
    ELSE {}

\* SearchableStringSet::build_search followed by the stream loop of search:
\* the exact terms found in by_word_map are grabbed, every other term is
\* searched in the FST, and each ordinal found is resolved in by_word_vec.
build_search(set, lev_dist, word_map, word_vec, map) ==
    LET exact == {m.term : m \in Range(set.exact)}
        grabbed == {t \in exact : t \in DOMAIN word_map}
        ungrabbed == exact \ grabbed
        searched == {m.term : m \in Range(set.not_exact)} \cup ungrabbed
        found == UNION {search_action(t, lev_dist, map) : t \in searched}
    IN  UNION {word_map[t] : t \in grabbed}
        \cup UNION {word_vec[map[w] + 1][2] : w \in found}

\* The terms build_search hands to search_action: every not_exact term and
\* every exact term the word index does not hold.
SearchedTerms(set, word_map) ==
    {m.term : m \in Range(set.not_exact)}
        \cup {m.term : m \in {x \in Range(set.exact) : x.term \notin DOMAIN word_map}}

\* The strings of a subject that are scored: the subject and its words.
SubjectStrings(s) == {s} \cup Range(Words(s))

\* The score of one subject (a name or the id): the maximum of match_str over
\* its strings, less STOP_WORDS_PENALTY when one of them is a stop word of the
\* query.
SubjectScore(term, s, overflow_checks) ==
    LET rs == {match_str(term.matches, x, overflow_checks) : x \in SubjectStrings(s)}
        best == MaxScore({r \in rs : r.kind = "Some"})
        stop == \E x \in SubjectStrings(s) : x \in Range(term.matches.stop_words)
    IN  IF Panic \in rs THEN Panic
        ELSE IF best = None THEN None
        ELSE IF stop THEN Score(best.score - STOP_WORDS_PENALTY, best.offset)
        ELSE best

\* Location::search: the state filter, then the code match, then the maximum
\* over the names and the id.
LocSearch(loc, term, overflow_checks) ==
    IF term.state_filter # NoKey /\ loc.state # term.state_filter THEN None
    ELSE LET cm == codes_match(term, loc.codes, SCORE_SOFT_MAX)
             rs == {SubjectScore(term, s, overflow_checks) : s \in loc.names \cup {loc.id}}
             best == MaxScore({r \in rs : r.kind = "Some"})
         IN  IF cm # None THEN cm
             ELSE IF Panic \in rs THEN Panic
             ELSE best

\* A faulty filter: a candidate is kept whatever its score.
KeepAll(score) == TRUE

\* The filter of search: score.score > SEARCH_INCLUSION_THRESHOLD.
Keep(score) == score.score > SEARCH_INCLUSION_THRESHOLD

\* The filter_map of search over the candidates, collected into a map; a
\* panic of one scorer is a panic of search.
ScoredMap(cand, term, db, overflow_checks) ==
    LET rs == Eager([k \in cand |-> LocSearch(db[k], term, overflow_checks)])
        kept == {k \in cand : rs[k].kind = "Some" /\ Keep(rs[k])}
    IN  IF \E k \in cand : rs[k] = Panic THEN Panic
        ELSE Eager([k \in kept |-> rs[k]])

\* The score map after ResultsGraph::from_results, each entry keeping its offset.
Reranked(sc, db, order) ==
    LET out == from_results(Eager([k \in DOMAIN sc |-> sc[k].score]), db, order)
    IN  Eager([k \in DOMAIN sc |-> Score(out[k], sc[k].offset)])

\* The edge orders from_results may process for a score map.
EdgeOrders(sc, db) ==
    SortedEdges(GraphEdges(Eager([k \in DOMAIN sc |-> sc[k].score]), db))

\* res.sort_unstable_by(|a, b| b.1.cmp(&a.1)): the (key, Score) pairs of a map
\* in every order that is descending by Score; the map's iteration order and
\* the unstable sort leave the order of equal Scores open.
SortedResults(m) ==
    {s \in SeqsOf({<<k, m[k]>> : k \in DOMAIN m}) :
        \A i, j \in DOMAIN s : i < j => ScoreGE(s[i][2], s[j][2])}

\* A faulty truncate: one entry too many.
truncateLate(s, limit) == SubSeq(s, 1, Min(Len(s), limit + 1))

\* Vec::truncate
truncate(s, limit) == SubSeq(s, 1, Min(Len(s), limit))

\* What search returned: a list.
Returned(list) == [kind |-> "Ok", list |-> list]

-----------------------------------------------------------------------------
(* Spec: a store is indexed by mk_fst, a query is analysed by              *)
(* from_raw_query and answered by search                                   *)

MaxWords == 3           \* words of a raw query
MaxLimit == 2           \* the largest limit a query asks for

\* A token of LEV_LENGTH_MAX characters, none of them a separator.
S_noise == <<"w", "h", "e", "r", "e", "a", "r", "e", "a", "l", "l", "t", "h", "e", "d", "e">>

\* The words raw queries are made of: names of the corpus (one capitalised
\* and followed by a comma), a code and the noise token.
QueryWords == { S_bath, <<"W", "a", "l", "e", "s", ",">>, S_bales, S_gb, S_noise }

\* The sequences of at most n distinct elements of S.
RECURSIVE DistinctSeqs(_, _)
DistinctSeqs(S, n) ==
    IF n = 0 THEN {<<>>}
    ELSE {<<>>} \cup UNION {{<<x>> \o t : t \in DistinctSeqs(S \ {x}, n - 1)} : x \in S}

\* The words of a sequence joined by single spaces.
RECURSIVE JoinWords(_)
JoinWords(ws) ==
    IF ws = <<>> THEN <<>>
    ELSE IF Len(ws) = 1 THEN ws[1]
    ELSE JoinSp(ws[1], JoinWords(Tail(ws)))

\* Two Cyrillic letters: two characters, four bytes.
S_zhe == <<"zhe", "zhe">>

\* The raw queries: the empty string, a lone separator, up to MaxWords
\* distinct words, and a word of multi-byte characters.
RawQueries ==
    {JoinWords(ws) : ws \in DistinctSeqs(QueryWords, MaxWords)}
        \cup {<<",">>, <<" ", " ">>, S_zhe}

StateFilters == {NoKey, S_gb, S_zz}
LevDists == {1, 3}

\* The corpora a store is loaded from, each with the strings the interner
\* holds besides those of the store (it is process-wide).
GbOnly == {l \in Universe : l.state = S_gb}
Corpora ==
    { [locs |-> Universe, extra |-> {}],
      [locs |-> GbOnly,   extra |-> {}],
      [locs |-> GbOnly,   extra |-> {S_bales}],
      [locs |-> {},       extra |-> {}] }

Init ==
    /\ \E c \in Corpora : LoadedDb(c.locs, c.extra)
    /\ IdleQuery /\ IdleGraph /\ IdleParse /\ IdleList
    /\ m_subject = <<>>
    /\ m_before = NoResult
    /\ m_last = "idle"
    /\ checks = TRUE

\* db.mk_fst()
MkFst ==
    /\ ~built
    /\ ParentsPresent(all)
    /\ arena' = AppendToParents(arena, indices, all)
    /\ by_word_map' = WordsMap(all)
    /\ by_word_vec' = WordsVec(WordsMap(all))
    /\ fst' = FstOf(WordsVec(WordsMap(all)))
    /\ built' = TRUE
    /\ UNCHANGED <<listVars, q_filter, all, indices, state_by_code,
                   subdiv_by_code, interned, queryVars, graphVars, matchVars,
                   parseVars>>

\* SearchTerm::from_raw_query(raw, state_filter, limit, lev_dist)
FromRawQuery ==
    /\ built
    /\ st = NoTerm
    /\ \E raw \in RawQueries, state_filter \in StateFilters,
          limit \in 0..MaxLimit, lev_dist \in LevDists :
          /\ q_filter' = state_filter
          /\ st' = from_raw_query(raw, state_filter, limit, lev_dist, interned)
    /\ UNCHANGED <<listVars, pre_filtered, scored, res, dbVars, graphVars, matchVars,
                   parseVars>>

\* The codes of a store's locations.
CodesOf(db) == UNION {db[k].codes : k \in DOMAIN db}

\* st.add_code(u) on the analysed query, for a word of it that is a code of
\* the store
QueryAddCode ==
    /\ st # NoTerm
    /\ res = NoResult
    /\ Len(st.codes) < MaxCodes
    /\ \E u \in Range(Words(st.normalized)) \cap CodesOf(all) : st' = add_code(st, u)
    /\ UNCHANGED <<listVars, q_filter, pre_filtered, scored, res, dbVars,
                   graphVars, matchVars, parseVars>>

\* db.search(&st)
Search ==
    /\ built
    /\ st # NoTerm
    /\ res = NoResult
    /\ \E cand \in {build_search(st.matches, st.lev_dist, by_word_map, by_word_vec, fst)} :
        \E sc \in {ScoredMap(cand, st, all, checks)} :
           /\ pre_filtered' = cand
           /\ IF sc = Panic
              THEN scored' = NoMap /\ res' = Panic
              ELSE /\ scored' = sc
                   /\ \E order \in EdgeOrders(sc, all) :
                         \E sorted \in SortedResults(Reranked(sc, all, order)) :
                            res' = Returned(truncate(sorted, st.limit))
    /\ UNCHANGED <<listVars, q_filter, st, dbVars, graphVars, matchVars, parseVars>>

Next == MkFst \/ FromRawQuery \/ QueryAddCode \/ Search

Spec == Init /\ [][Next]_vars

\* The entries of the returned list.
Entries == IF res.kind = "Ok" THEN res.list ELSE <<>>

\* C1: the list search returns has at most st.limit entries, whatever the
\* store and the query (limit 0 and a limit above the number of scored
\* candidates included).
C1_AtMostLimit == res.kind = "Ok" => Len(res.list) <= st.limit

\* C1 is exercised: truncation cut a longer list to a positive limit, and the
\* model also holds limit 0 and limits above the number of candidates.
C1_Witness ==
    /\ res.kind = "Ok"
    /\ st.limit > 0
    /\ Len(res.list) = st.limit
    /\ Cardinality(DOMAIN scored) > st.limit

\* C2: every entry of the returned list has a score strictly above
\* SEARCH_INCLUSION_THRESHOLD, after the hierarchy re-rank has rewritten the
\* scores.
C2_AboveThreshold ==
    \A i \in DOMAIN Entries : Entries[i][2].score > SEARCH_INCLUSION_THRESHOLD

\* C2 is exercised: the filter dropped a scored candidate, and an entry of the
\* list carries a score the re-rank has rewritten.
C2_Witness ==
    /\ res.kind = "Ok"
    /\ pre_filtered \ DOMAIN scored # {}
    /\ \E i \in DOMAIN res.list : res.list[i][2].score # scored[res.list[i][1]].score

\* C3: the returned list is in the total order score descending, then key
\* ascending; equal scores never appear out of key order.
C3_ScoreThenKey ==
    \A i, j \in DOMAIN Entries :
        i < j => \/ Entries[i][2].score > Entries[j][2].score
                 \/ /\ Entries[i][2].score = Entries[j][2].score
                    /\ StrCmp(Entries[i][1], Entries[j][1]) < 0

\* C8: a query that is empty, or normalizes to the empty string, is analysed
\* into a SearchTerm with no exact and no not_exact term, and search on it
\* returns the empty list, without a panic, on every store.
C8_EmptyQueryEmptyList ==
    (st # NoTerm /\ st.normalized = <<>>) =>
        /\ st.matches.exact = <<>>
        /\ st.matches.not_exact = <<>>
        /\ res # NoResult => res = Returned(<<>>)

\* C8 is exercised: a non-empty raw query that normalizes to the empty string
\* was searched on a store that holds locations.
C8_Witness ==
    /\ st # NoTerm
    /\ st.raw # <<>>
    /\ st.normalized = <<>>
    /\ DOMAIN all # {}
    /\ res = Returned(<<>>)

\* C9: after from_raw_query every not_exact term has fewer than
\* LEV_LENGTH_MAX characters, is absent from the interner and is a single
\* word or a doublet, never a triplet; a query that is one long unsegmented
\* token gathers no candidate.
C9_NotExactShort ==
    st # NoTerm =>
        /\ \A i \in DOMAIN st.matches.not_exact :
              LET term == st.matches.not_exact[i].term
              IN  /\ CharCount(term) < LEV_LENGTH_MAX
                  /\ ~from_existing(term, interned)
                  /\ Len(Words(term)) \in {1, 2}
        /\ (st.normalized = S_noise /\ res # NoResult) =>
              /\ st.matches.not_exact = <<>>
              /\ pre_filtered = {}

\* C9 is exercised: the query held the long token, a triplet and a word that
\* became a not_exact term, and it was searched.
C9_Witness ==
    /\ st # NoTerm
    /\ res # NoResult
    /\ Len(Words(st.normalized)) >= 3
    /\ \E i \in DOMAIN Words(st.normalized) : Words(st.normalized)[i] = S_noise
    /\ st.matches.not_exact # <<>>



\* C12: when the caller gave from_raw_query a state filter, whatever string
\* it is, search returns no location whose state differs from that filter.
C12_CallerFilterApplied ==
    (res.kind = "Ok" /\ q_filter # NoKey) =>
        \A i \in DOMAIN Entries : all[Entries[i][1]].state = q_filter


\* C16: in candidate gather a term of n characters contributes no automaton
\* when n <= 3, and otherwise the automaton of the tokens that start with it
\* or lie within d edits of it, where d = lev_dist for n < LEV_3_LENGTH_MAX,
\* min(lev_dist, 2) for n < LEV_2_LENGTH_MAX and min(lev_dist, 1) beyond; n
\* is the number of characters in both tests.
C16_AutomatonByCharCount ==
    res # NoResult =>
        \A t \in SearchedTerms(st.matches, by_word_map) :
            \E n \in {CharCount(t)} :
            \E d \in {IF n < LEV_3_LENGTH_MAX THEN st.lev_dist
                      ELSE IF n < LEV_2_LENGTH_MAX THEN Min(st.lev_dist, 2)
                      ELSE Min(st.lev_dist, 1)} :
               /\ d <= st.lev_dist
               /\ search_action(t, st.lev_dist, fst) =
                     IF n <= 3 THEN {}
                     ELSE {w \in DOMAIN fst : StartsWith(w, t) \/ Levenshtein(t, w) <= d}


\* C17: after mk_fst the FST and the parallel vector agree: by_word_vec is
\* strictly ascending by the bytes of its tokens, the FST maps each token w
\* to the 0-based index i with by_word_vec[i] = (w, by_word_map[w]), and every
\* ordinal of the FST is an index of by_word_vec whose keys are keys of the
\* store.
C17_FstAgreesWithVec ==
    built =>
        /\ \A i \in DOMAIN by_word_vec : \A j \in DOMAIN by_word_vec :
              i < j => StrCmp(by_word_vec[i][1], by_word_vec[j][1]) < 0
        /\ DOMAIN fst = DOMAIN by_word_map
        /\ DOMAIN fst = {by_word_vec[i][1] : i \in DOMAIN by_word_vec}
        /\ \A w \in DOMAIN fst :
              /\ fst[w] \in 0..(Len(by_word_vec) - 1)
              /\ by_word_vec[fst[w] + 1] = <<w, by_word_map[w]>>
        /\ \A i \in DOMAIN by_word_vec : by_word_vec[i][2] \subseteq DOMAIN all

\* C17 witness: a store with a token of two locations and a token that is a
\* prefix of another was indexed, and a search resolved ordinals of the FST
\* for a term the word index does not hold.
C17_Witness ==
    /\ built
    /\ \E i \in DOMAIN by_word_vec : Cardinality(by_word_vec[i][2]) > 1
    /\ \E v \in DOMAIN fst : \E w \in DOMAIN fst : v # w /\ StartsWith(w, v)
    /\ fst[S_wales] = Len(by_word_vec) - 1
    /\ res.kind = "Ok"
    /\ st.matches.not_exact # <<>>
    /\ pre_filtered # {}

-----------------------------------------------------------------------------
(* SpecParse: parse_data_block, its records decoded by parallel workers    *)
(* that insert under the store's write lock                                *)

NumWorkers == 2         \* threads of the worker pool
MaxRecords == 3         \* records of a JSON object

Workers == 1..NumWorkers

NoLocation == [kind |-> "None"]

\* A record of the JSON object: its identifier and what decoding it gives, a
\* location or a failure of serde_json::from_value or of Location::from_raw.
Record(id, failure, loc) == [id |-> id, failure |-> failure, loc |-> loc]

\* The records a JSON object is drawn from: a state, a subdivision, a value
\* that does not decode, a value Location::from_raw rejects, and a second
\* value that decodes to the key of the state.
RecordPool ==
    { Record("a", "none",
             Location(K_gb, S_gb, "State", S_gb, {S_gb}, {S_wales}, NoKey, NoKey)),
      Record("b", "none",
             Location(K_sub, <<"g", "b", ":", "b", "a", "n">>, "Subdivision", S_gb,
                      {S_ban}, {S_bath}, K_gb, NoKey)),
      Record("c", "decode", NoLocation),
      Record("d", "from_raw", NoLocation),
      Record("e", "none",
             Location(K_gb, S_gb, "State", S_gb, {S_gb}, {S_bales}, NoKey, NoKey)) }

Blocks == {b \in SUBSET RecordPool : Cardinality(b) <= MaxRecords}

NoRecord == [id |-> "none"]

InitParse ==
    /\ all = NoMap
    /\ indices = NoMap
    /\ arena = <<>>
    /\ state_by_code = NoMap
    /\ subdiv_by_code = NoMap
    /\ interned = {}
    /\ by_word_map = NoMap
    /\ by_word_vec = <<>>
    /\ fst = NoMap
    /\ built = FALSE
    /\ IdleQuery /\ IdleGraph /\ IdleMatch /\ IdleList
    /\ block \in Blocks
    /\ todo = block
    /\ w_pc = [w \in Workers |-> "idle"]
    /\ w_rec = [w \in Workers |-> [rec |-> NoRecord, node |-> NoNode]]
    /\ w_errs = [w \in Workers |-> <<>>]
    /\ lock = NoWorker
    /\ errors = <<>>
    /\ ret = "running"

\* A faulty lock: a writer is admitted while another holds it.
LockOpen(l) == TRUE

\* RwLock::write: a writer is admitted when no worker holds the lock.
LockFree(l) == l = NoWorker

\* The store as one value.
StoreNow ==
    [all |-> all, indices |-> indices, state_by_code |-> state_by_code,
     subdiv_by_code |-> subdiv_by_code, arena |-> arena]

\* par_bridge hands the next record of the object to a free worker.
Take(w) ==
    /\ ret = "running"
    /\ w_pc[w] = "idle"
    /\ \E r \in todo :
          /\ todo' = todo \ {r}
          /\ w_rec' = [w_rec EXCEPT ![w] = [rec |-> r, node |-> NoNode]]
    /\ w_pc' = [w_pc EXCEPT ![w] = "decode"]
    /\ UNCHANGED <<listVars, q_filter, block, w_errs, lock, errors, ret, dbVars,
                   queryVars, graphVars, matchVars>>

\* The map closure: serde_json::from_value, then Location::from_raw, which
\* interns the strings of the location; a failure becomes an error naming
\* the record's identifier.
Decode(w) ==
    /\ w_pc[w] = "decode"
    /\ LET r == w_rec[w].rec
       IN  IF r.failure # "none"
           THEN /\ w_errs' = [w_errs EXCEPT ![w] = Append(@, r.id)]
                /\ w_pc' = [w_pc EXCEPT ![w] = "idle"]
                /\ UNCHANGED interned
           ELSE /\ w_pc' = [w_pc EXCEPT ![w] = "lock"]
                /\ interned' = interned \cup InternedBy(StoreOf({r.loc}))
                /\ UNCHANGED w_errs
    /\ UNCHANGED <<listVars, q_filter, block, todo, w_rec, lock, errors, ret,
                   storeVars, by_word_map, by_word_vec, fst, built, queryVars,
                   graphVars, matchVars>>

\* db.write().expect("cannot aquire lock")
Acquire(w) ==
    /\ w_pc[w] = "lock"
    /\ LockFree(lock)
    /\ lock' = w
    /\ w_pc' = [w_pc EXCEPT ![w] = "insert"]
    /\ UNCHANGED <<listVars, q_filter, block, todo, w_rec, w_errs, errors, ret,
                   dbVars, queryVars, graphVars, matchVars>>

\* db.insert(l), first half: the arena's next node is chosen.
InsertBegin(w) ==
    /\ w_pc[w] = "insert"
    /\ w_rec' = [w_rec EXCEPT ![w].node = Len(arena) + 1]
    /\ w_pc' = [w_pc EXCEPT ![w] = "write"]
    /\ UNCHANGED <<listVars, q_filter, block, todo, w_errs, lock, errors, ret,
                   dbVars, queryVars, graphVars, matchVars>>

\* db.insert(l), second half: the node and the maps are written, and the
\* guard is dropped as the closure returns.
InsertEnd(w) ==
    /\ w_pc[w] = "write"
    /\ LET l == w_rec[w].rec.loc
           n == w_rec[w].node
           node == [data |-> l.key, parent |-> NoNode]
       IN  \E db \in {InsertMaps(StoreNow, l, n)} :
              /\ all' = db.all
              /\ indices' = db.indices
              /\ state_by_code' = db.state_by_code
              /\ subdiv_by_code' = db.subdiv_by_code
              /\ arena' = IF n = Len(arena) + 1 THEN Append(arena, node)
                          ELSE [arena EXCEPT ![n] = node]
    /\ lock' = NoWorker
    /\ w_pc' = [w_pc EXCEPT ![w] = "idle"]
    /\ UNCHANGED <<listVars, q_filter, block, todo, w_rec, w_errs, errors, ret,
                   interned, by_word_map, by_word_vec, fst, built, queryVars,
                   graphVars, matchVars>>

\* The concatenation of the workers' error lists.
RECURSIVE Flatten(_, _)
Flatten(lists, w) ==
    IF w > Len(lists) THEN <<>> ELSE lists[w] \o Flatten(lists, w + 1)

\* collect(), then the result: Err when an error was collected, else Ok.
Collect ==
    /\ ret = "running"
    /\ todo = {}
    /\ \A w \in Workers : w_pc[w] = "idle"
    /\ errors' = Flatten(w_errs, 1)
    /\ ret' = IF Len(Flatten(w_errs, 1)) > 0 THEN "Err" ELSE "Ok"
    /\ UNCHANGED <<listVars, q_filter, block, todo, w_pc, w_rec, w_errs, lock,
                   dbVars, queryVars, graphVars, matchVars>>

NextParse ==
    \/ \E w \in Workers :
          Take(w) \/ Decode(w) \/ Acquire(w) \/ InsertBegin(w) \/ InsertEnd(w)
    \/ Collect

SpecParse == InitParse /\ [][NextParse]_vars

\* The records of a block that decode, and those that fail.
Decoded(b) == {r \in b : r.failure = "none"}
Failing(b) == {r \in b : r.failure # "none"}

\* The result is Ok iff every record decoded, and an Err lists the identifier
\* of each failing record exactly once.
ErrorsListed ==
    /\ ret = "Ok" <=> Failing(block) = {}
    /\ Len(errors) = Cardinality(Failing(block))
    /\ Range(errors) = {r.id : r \in Failing(block)}

\* C10: when parse_data_block has returned, under whatever interleaving of
\* its workers, the result is Ok iff every record decoded, an Err lists each
\* failing identifier exactly once, and the store holds exactly the records
\* that decoded: each is found under its key, and the arena has one node for
\* each of them and no two nodes for one key.
C10_StoreHoldsDecoded ==
    ret # "running" =>
        /\ ErrorsListed
        /\ DOMAIN all = {r.loc.key : r \in Decoded(block)}
        /\ \A r \in Decoded(block) : all[r.loc.key] = r.loc
        /\ Len(arena) = Cardinality(Decoded(block))
        /\ \A i, j \in DOMAIN arena : arena[i].data = arena[j].data => i = j

\* C10 as the code keeps it: the result and the error list are as claimed;
\* the arena has one node for each decoded record; the store has one entry
\* for each key, which is a decoded record of that key, and indices names a
\* node of that key. Records of pairwise distinct keys are all found.
C10_StoreHoldsOnePerKey ==
    ret # "running" =>
        /\ ErrorsListed
        /\ DOMAIN all = {r.loc.key : r \in Decoded(block)}
        /\ DOMAIN indices = DOMAIN all
        /\ \A k \in DOMAIN all :
              /\ all[k] \in {r.loc : r \in {d \in Decoded(block) : d.loc.key = k}}
              /\ indices[k] \in DOMAIN arena
              /\ arena[indices[k]].data = k
        /\ \A k \in DOMAIN all :
              Cardinality({i \in DOMAIN arena : arena[i].data = k})
                = Cardinality({r \in Decoded(block) : r.loc.key = k})
        /\ Len(arena) = Cardinality(Decoded(block))
        /\ lock = NoWorker

\* C10 is exercised: a block with a failing record and two records of one key
\* was parsed by both workers, and the entry of that key is the record "a".
C10_Witness ==
    /\ ret = "Err"
    /\ \E r1, r2 \in Decoded(block) : r1 # r2 /\ r1.loc.key = r2.loc.key
    /\ \A w \in Workers : w_rec[w].rec # NoRecord
    /\ \E r \in Decoded(block) : r.id = "a" /\ all[r.loc.key] = r.loc

-----------------------------------------------------------------------------
(* SpecList: parse_data_list feeds the rows of the CSV to a loaded store.  *)

\* The value of a decimal digit.
DigitVal == Eager([c \in {"0", "1", "2", "3", "4", "5", "6", "7", "8", "9"} |->
                     CHOOSE n \in 0..9 : ToString(n) = c])
IsDigit(c) == c \in DOMAIN DigitVal

\* digit1: the index after the longest run of digits of s that starts at i.
RECURSIVE DigitsEnd(_, _)
DigitsEnd(s, i) == IF i <= Len(s) /\ IsDigit(s[i]) THEN DigitsEnd(s, i + 1) ELSE i

\* space1: the index after the longest run of spaces of s that starts at i.
RECURSIVE SpacesEnd(_, _)
SpacesEnd(s, i) == IF i <= Len(s) /\ s[i] = " " THEN SpacesEnd(s, i + 1) ELSE i

\* f64::from_str of the digits s[i..j-1].
RECURSIVE NumOf(_, _, _)
NumOf(s, i, j) == IF j <= i THEN 0 ELSE NumOf(s, i, j - 1) * 10 + DigitVal[s[j - 1]]

\* float_from_deg_min, in minutes of arc (sixty times the f64 it returns).
float_from_deg_min(deg, min) == deg * 60 + min

\* coordinate_parser: two digits of degrees, minutes, N or S, spaces, three
\* digits of degrees, minutes, E or W; north and east are positive.
coordinate_parser(s) ==
    LET a == DigitsEnd(s, 3)
        b == SpacesEnd(s, a + 1)
        c == DigitsEnd(s, b + 3)
    IN  IF /\ Len(s) >= 2 /\ IsDigit(s[1]) /\ IsDigit(s[2])
           /\ a > 3
           /\ a <= Len(s) /\ s[a] \in {"N", "S"}
           /\ b > a + 1
           /\ b + 2 <= Len(s) /\ \A i \in b..(b + 2) : IsDigit(s[i])
           /\ c > b + 3
           /\ c <= Len(s) /\ s[c] \in {"E", "W"}
        THEN LET lat == float_from_deg_min(NumOf(s, 1, 3), NumOf(s, 3, a))
                 lon == float_from_deg_min(NumOf(s, b, b + 3), NumOf(s, b + 3, c))
             IN  [lat |-> IF s[a] = "S" THEN -lat ELSE lat,
                  lon |-> IF s[c] = "W" THEN -lon ELSE lon]
        ELSE NoCoordinates

\* CsvLocode::parse_coordinates: the coordinates of the row, when they parse.
parse_coordinates(csv_loc) == coordinate_parser(csv_loc.coordinates)

C_bath  == <<"5", "1", "2", "3", "N", " ", "0", "0", "2", "2", "2", "W">>
C_test  == <<"6", "0", "0", "N", " ", "0", "1", "2", "1", "2", "E">>
C_brest == <<"4", "8", "2", "4", "N", " ", "0", "0", "4", "2", "9", "W">>
K_none  == <<"l", "c", "-", "z", "z", ":", "z", "z", "z">>

\* A row of the CSV: the key CsvLocode::key gives and the coordinate string.
CsvLocode(key, coordinates) == [key |-> key, coordinates |-> coordinates]

\* The rows a CSV is drawn from: two rows for one locode, a row for a second
\* locode, a row of a key no store holds, a row whose key is a state, and a
\* row without coordinates.
RowPool ==
    { CsvLocode(K_bth, C_bath), CsvLocode(K_bth, C_test), CsvLocode(K_frb, C_brest),
      CsvLocode(K_none, C_test), CsvLocode(K_gb, C_test), CsvLocode(K_bth, <<>>) }

MaxRows == 3

RECURSIVE RowsUpTo(_)
RowsUpTo(n) ==
    IF n = 0 THEN {<<>>}
    ELSE LET shorter == RowsUpTo(n - 1)
         IN  shorter \cup {Append(t, r) : t \in shorter, r \in RowPool}

InitList ==
    /\ \E locs \in {Universe, GbOnly} : LoadedDb(locs, {})
    /\ IdleQuery /\ IdleGraph /\ IdleMatch /\ IdleParse
    /\ csv \in RowsUpTo(MaxRows)
    /\ l_next = 1
    /\ nerrs = 1
    /\ l_ret = "running"

\* match loc.data { LocData::Locd(mut d) => d.coordinates = coord, .. } with
\* loc = db.all.get_mut(key): the pattern binds d by value, so d is a copy
\* of the locode held by the store (only a Copy value can be bound out of the
\* place behind the mutable reference), and the assignment writes the copy.
SetCoordinates(store, key, coord) ==
    LET d == [store[key] EXCEPT !.coordinates = coord]
    IN  store

\* One turn of the loop of parse_data_list.
ListRow ==
    /\ l_ret = "running"
    /\ l_next <= Len(csv)
    /\ l_next' = l_next + 1
    /\ LET csv_loc == csv[l_next]
           key == csv_loc.key
       IN  IF key \notin DOMAIN all
           THEN /\ nerrs' = nerrs + 1
                /\ UNCHANGED <<all, l_ret>>
           ELSE IF all[key].kind = "Locode"
           THEN /\ all' = SetCoordinates(all, key, parse_coordinates(csv_loc))
                /\ UNCHANGED <<nerrs, l_ret>>
           ELSE /\ l_ret' = "Err"
                /\ UNCHANGED <<all, nerrs>>
    /\ UNCHANGED <<csv, q_filter, indices, arena, state_by_code, subdiv_by_code, interned,
                   by_word_map, by_word_vec, fst, built, queryVars, graphVars,
                   matchVars, parseVars>>

\* The iterator is exhausted: Ok(db).
ListReturn ==
    /\ l_ret = "running"
    /\ l_next > Len(csv)
    /\ l_ret' = "Ok"
    /\ UNCHANGED <<csv, l_next, nerrs, q_filter, dbVars, queryVars, graphVars, matchVars,
                   parseVars>>

NextList == ListRow \/ ListReturn

SpecList == InitList /\ [][NextList]_vars

\* The rows of the CSV whose key is a locode of the store.
LocodeRows == {i \in DOMAIN csv : csv[i].key \in DOMAIN all /\ all[csv[i].key].kind = "Locode"}

\* C11: after parse_data_list returns Ok, every locode of the store whose key
\* appears in a row of the CSV has the coordinates parsed from a row of that
\* key, and rows whose key the store lacks are skipped without failing: they
\* are counted and the store is as it would be without them.
C11_CsvSuppliesCoordinates ==
    l_ret = "Ok" =>
        /\ \A i \in LocodeRows :
              \E j \in LocodeRows :
                 /\ csv[j].key = csv[i].key
                 /\ all[csv[i].key].coordinates = parse_coordinates(csv[j])
        /\ nerrs = 1 + Cardinality({i \in DOMAIN csv : csv[i].key \notin DOMAIN all})

\* What the code gives: Ok, and the locode named by a row has no coordinates.
C11_CoordinatesDropped ==
    l_ret = "Ok" => \A k \in DOMAIN all : all[k].coordinates = NoCoordinates

=============================================================================
